---- MODULE Spec2Model ----
(***************************************************************************)
(* PlexIQ: the scoring engine (plexiq/analyzer.py), the configuration      *)
(* validation (plexiq/config.py), the delete command                       *)
(* (plexiq/commands/delete.py), the GUI dry-run (plexiq/gui/main_window.py)*)
(* and the backup ledger (plexiq/backup.py).                               *)
(*                                                                         *)
(* Number representation (exact rational arithmetic, no float rounding):   *)
(*   ratings imdb/tmdb      tenths of a point   (9.0  -> 90)               *)
(*   rotten_tomatoes        percent             (90%  -> 90), so that      *)
(*                          rotten_tomatoes / 10.0 in tenths is the same   *)
(*                          integer                                        *)
(*   never_delete_rating    tenths              (8.0  -> 80)               *)
(*   weights, min score     hundredths          (0.25 -> 25)               *)
(*   component scores       1/600               (1.0  -> 600)              *)
(*   total score            1/60000             (1.0  -> 60000)            *)
(*   size_bytes             MiB                 (1 GiB -> 1024)            *)
(*   dates                  whole days before now                          *)
(* An optional field is [tag |-> "absent" | "null" | "val", v |-> value]:  *)
(* "absent" is a missing dict key, "null" a key holding None.              *)
(***************************************************************************)
EXTENDS Integers, Sequences, FiniteSets, TLC

VARIABLES
    config,     \* Config._config: weights and thresholds
    item,       \* scoring: the metadata record under analysis
    spc,        \* scoring: position inside the loop body of analyze_items
    result,     \* scoring: what the loop body has produced so far
    library,    \* the records the collector returns for the library
    dpc,        \* delete command: position in the handler
    args,       \* delete command: the command-line options of the run
    items_to_delete,  \* delete command: the deletion plan
    perform,    \* _perform_deletion: deleted_count, failed_count, deleted items
    gpc,        \* GUI: state of the main window
    gui_items,  \* GUI: PlexIQMainWindow.analyzed_items
    files,      \* backup_dir: file name -> file content
    now,        \* datetime.now(), in seconds
    restored,   \* outcome of the last restore_backup call
    unreadable, \* backup_dir: the names of the files that hold no valid JSON
    called,     \* the last list_backups or cleanup_old_backups call on the
                \* backup directory as it stands, and what it returned
    movies,     \* backend: the movies handed to Analyzer.analyze_movies
    analyzed_movies,  \* backend: what Analyzer.analyze_movies returned
    earlier,    \* scoring: what an earlier compute_deletion_score call returned
    elapsed,    \* scoring: whole days gone by since the run started
    report,     \* backend: what Analyzer.generate_report returned
    analysis_state,  \* backend API: the global analysis_state
    cached_results,  \* backend API: whether cached_results holds results
    api         \* backend API: each POST /api/analyze request, its position
                \* in the handler and its response

svars == <<config, item, spc, result>>
dvars == <<library, dpc, args, items_to_delete, perform, gpc, gui_items>>
lvars == <<files, now, restored, unreadable, called>>
xvars == <<movies, analyzed_movies, earlier, elapsed, report, analysis_state,
          cached_results, api>>
vars == <<svars, dvars, lvars, xvars>>

--------------------------------------------------------------------------
(* Optional values *)

Absent == [tag |-> "absent", v |-> 0]
Null == [tag |-> "null", v |-> 0]
Val(n) == [tag |-> "val", v |-> n]

\* dict.get(key) is not None
IsNotNone(o) == o.tag = "val"

\* a date string: "malformed" is a non-empty string fromisoformat rejects
Malformed == [tag |-> "malformed", v |-> 0]

\* Python truthiness of an optional string field (None and a missing key
\* read through .get() are falsy)
Truthy(o) == o.tag \in {"val", "malformed"}

Min(a, b) == IF a <= b THEN a ELSE b

RECURSIVE SumSeq(_)
SumSeq(s) == IF s = <<>> THEN 0 ELSE Head(s) + SumSeq(Tail(s))

--------------------------------------------------------------------------
(* Config._load_config / Config._validate_config *)

DefaultWeights ==
    [play_count |-> 30, ratings |-> 25, size |-> 20, age |-> 15, quality |-> 10]

\* environments the program may be started in (WEIGHT_*, MIN_DELETION_SCORE,
\* NEVER_DELETE_RATING_THRESHOLD), valid and invalid
EnvWeights ==
    { DefaultWeights,
      [play_count |-> 35, ratings |-> 25, size |-> 20, age |-> 15, quality |-> 10],
      [play_count |-> 25, ratings |-> 25, size |-> 20, age |-> 15, quality |-> 10],
      [play_count |-> 70, ratings |-> 45, size |-> 20, age |-> 15, quality |-> -50],
      [play_count |-> 50, ratings |-> 25, size |-> 20, age |-> 15, quality |-> 10],
      [play_count |-> 50, ratings |-> 45, size |-> -20, age |-> 15, quality |-> 10],
      [play_count |-> 0, ratings |-> 45, size |-> 20, age |-> 20, quality |-> 15] }

EnvMinScore == {0, 70, 110}
EnvNeverDelete == {80, 100, 120}

Environments ==
    [weights : EnvWeights,
     min_deletion_score : EnvMinScore,
     never_delete_rating : EnvNeverDelete]

_validate_config(c) ==
    LET total_weight == c.weights.play_count + c.weights.ratings + c.weights.size
                        + c.weights.age + c.weights.quality
    IN  /\ 95 <= total_weight /\ total_weight <= 105
        /\ 0 <= c.min_deletion_score /\ c.min_deletion_score <= 100
        /\ 0 <= c.never_delete_rating /\ c.never_delete_rating <= 100

\* the configuration of an empty environment
DefaultConfig ==
    [weights |-> DefaultWeights, min_deletion_score |-> 70,
     never_delete_rating |-> 80]

\* Config(): only a validated configuration is ever handed to MediaAnalyzer
Configs == {c \in Environments : _validate_config(c)}

--------------------------------------------------------------------------
(* MediaAnalyzer: the five component scorers.  Each returns                *)
(* [err, score, why]: err is TRUE when the Python code raises.             *)

Ok(score, why) == [err |-> FALSE, score |-> score, why |-> why]
Raise(why) == [err |-> TRUE, score |-> 0, why |-> why]

\* _score_play_count with `view_count < 3` for `view_count <= 3`
_score_play_count_lt3(it) ==
    LET view_count == it.view_count
    IN  IF view_count = 0 THEN Ok(600, "Play count: never watched")
        ELSE IF view_count = 1 THEN Ok(420, "Play count: watched once")
        ELSE IF view_count < 3 THEN Ok(240, "Play count: occasional viewer")
        ELSE Ok(60, "Play count: frequently watched")

_score_play_count(it) ==
    LET view_count == it.view_count
    IN  IF view_count = 0 THEN Ok(600, "Play count: never watched")
        ELSE IF view_count = 1 THEN Ok(420, "Play count: watched once")
        ELSE IF view_count <= 3 THEN Ok(240, "Play count: occasional viewer")
        ELSE Ok(60, "Play count: frequently watched")

\* available_ratings of _score_ratings, in tenths
ScoreAvailableRatings(it) ==
    (IF IsNotNone(it.imdb) THEN <<it.imdb.v>> ELSE <<>>)
    \o (IF IsNotNone(it.tmdb) THEN <<it.tmdb.v>> ELSE <<>>)
    \o (IF IsNotNone(it.rotten_tomatoes) THEN <<it.rotten_tomatoes.v>> ELSE <<>>)

_score_ratings(it, cfg) ==
    LET available_ratings == ScoreAvailableRatings(it)
        n == Len(available_ratings)
        total == SumSeq(available_ratings)
    IN  IF n = 0 THEN Ok(300, "Ratings: none available, neutral")
        \* avg_rating >= never_delete_threshold
        ELSE IF total >= cfg.never_delete_rating * n
             THEN Ok(0, "Ratings: PROTECTED (highly rated)")
        \* 1.0 - avg_rating / 10.0
        ELSE Ok(600 - (6 \div n) * total,
                IF total >= 70 * n THEN "Ratings: low priority"
                ELSE IF total >= 50 * n THEN "Ratings: moderate priority"
                ELSE "Ratings: high priority")

\* _score_size with the scores of the medium and large bands exchanged
_score_size_swapped(it) ==
    IF it.size_bytes.tag = "null" THEN Raise("TypeError")
    ELSE LET size_mb == IF it.size_bytes.tag = "val" THEN it.size_bytes.v ELSE 0
         IN  IF size_mb < 1024 THEN Ok(120, "Size: small")
             ELSE IF size_mb < 5 * 1024 THEN Ok(420, "Size: medium")
             ELSE IF size_mb < 10 * 1024 THEN Ok(240, "Size: large")
             ELSE Ok(600, "Size: very large")

_score_size(it) ==
    IF it.size_bytes.tag = "null" THEN Raise("TypeError")
    ELSE LET size_mb == IF it.size_bytes.tag = "val" THEN it.size_bytes.v ELSE 0
         IN  IF size_mb < 1024 THEN Ok(120, "Size: small")
             ELSE IF size_mb < 5 * 1024 THEN Ok(240, "Size: medium")
             ELSE IF size_mb < 10 * 1024 THEN Ok(420, "Size: large")
             ELSE Ok(600, "Size: very large")

_score_age(it) ==
    IF ~Truthy(it.added_at) THEN Ok(300, "Age: unknown add date, neutral")
    ELSE IF it.added_at.tag = "malformed" THEN Raise("ValueError")
    ELSE LET days_since_added == it.added_at.v
         IN  IF ~Truthy(it.last_viewed_at)
             THEN IF days_since_added > 365
                  THEN Ok(600, "Age: never watched, very high priority")
                  ELSE IF days_since_added > 180
                  THEN Ok(480, "Age: never watched, high priority")
                  ELSE Ok(360, "Age: never watched, moderate priority")
             ELSE IF it.last_viewed_at.tag = "malformed" THEN Raise("ValueError")
             ELSE LET days_since_viewed == it.last_viewed_at.v
                  IN  IF days_since_viewed > 730
                      THEN Ok(540, "Age: last watched, very high priority")
                      ELSE IF days_since_viewed > 365
                      THEN Ok(360, "Age: last watched, moderate priority")
                      ELSE IF days_since_viewed > 180
                      THEN Ok(240, "Age: last watched, low priority")
                      ELSE Ok(60, "Age: last watched, very low priority")

\* str.lower() on the labels of the model
Lower(s) == IF s = "SD" THEN "sd" ELSE IF s = "4K" THEN "4k" ELSE s

\* `marker in label`: among the labels of the model a label holds a marker
\* exactly when it starts with it
Contains(marker, label) ==
    \/ label = marker
    \/ label = "1080p" /\ marker = "1080"
    \/ label = "mpeg2video" /\ marker = "mpeg2"

_score_quality(it) ==
    IF it.resolution.tag = "null" \/ it.video_codec.tag = "null"
    THEN Raise("AttributeError")
    ELSE LET resolution == IF it.resolution.tag = "val" THEN Lower(it.resolution.v) ELSE ""
             codec == IF it.video_codec.tag = "val" THEN Lower(it.video_codec.v) ELSE ""
             res_score ==
                 IF Contains("sd", resolution) \/ Contains("480", resolution) THEN 600
                 ELSE IF Contains("720", resolution) THEN 360
                 ELSE IF Contains("1080", resolution) THEN 180
                 ELSE IF Contains("4k", resolution) \/ Contains("2160", resolution) THEN 0
                 ELSE 300
             codec_penalty ==
                 IF Contains("mpeg2", codec) \/ Contains("h263", codec) THEN 180 ELSE 0
         IN  Ok(Min(600, res_score + codec_penalty),
                IF codec_penalty > 0 THEN "Quality: old codec"
                ELSE IF codec # "" THEN "Quality: codec"
                ELSE "Quality: unknown codec")

--------------------------------------------------------------------------
(* MediaAnalyzer.compute_deletion_score and _should_recommend_deletion *)

\* Returns [err, score, rationale]; a component that raises aborts the call
\* at that component (play count, ratings, size, age, quality, in that order).
compute_deletion_score(it, cfg) ==
    LET play == _score_play_count(it)
        rating == _score_ratings(it, cfg)
        size == _score_size(it)
        age == _score_age(it)
        quality == _score_quality(it)
        total_score == play.score * cfg.weights.play_count
                       + rating.score * cfg.weights.ratings
                       + size.score * cfg.weights.size
                       + age.score * cfg.weights.age
                       + quality.score * cfg.weights.quality
        raised == IF play.err THEN play.why
                  ELSE IF rating.err THEN rating.why
                  ELSE IF size.err THEN size.why
                  ELSE IF age.err THEN age.why
                  ELSE IF quality.err THEN quality.why
                  ELSE "none"
    IN  IF raised # "none"
        THEN [err |-> raised, score |-> 0, rationale |-> <<>>]
        ELSE [err |-> "none", score |-> total_score,
              rationale |-> <<"Overall deletion score", play.why, rating.why,
                              size.why, age.why, quality.why>>]

\* available_ratings of _should_recommend_deletion, in tenths:
\* ratings.get('rotten_tomatoes', 0) / 10.0 is 0.0 for a missing key
GateAvailableRatings(it) ==
    (IF IsNotNone(it.imdb) THEN <<it.imdb.v>> ELSE <<>>)
    \o (IF IsNotNone(it.tmdb) THEN <<it.tmdb.v>> ELSE <<>>)
    \o (IF it.rotten_tomatoes.tag = "absent" THEN <<0>> ELSE <<it.rotten_tomatoes.v>>)

\* Returns [err, recommended]; score in 1/60000
_should_recommend_deletion(it, score, cfg) ==
    IF score < cfg.min_deletion_score * 600
    THEN [err |-> "none", recommended |-> FALSE]
    \* None / 10.0
    ELSE IF it.rotten_tomatoes.tag = "null"
    THEN [err |-> "TypeError", recommended |-> FALSE]
    ELSE LET available_ratings == GateAvailableRatings(it)
             n == Len(available_ratings)
         IN  IF n > 0 /\ SumSeq(available_ratings) >= cfg.never_delete_rating * n
             THEN [err |-> "none", recommended |-> FALSE]
             ELSE [err |-> "none", recommended |-> TRUE]

--------------------------------------------------------------------------
(* MediaAnalyzer.analyze_items *)

\* InsertByScore as an unstable sort would place an item among its equals
RECURSIVE InsertByScore_unstable(_, _)
InsertByScore_unstable(sorted, x) ==
    IF sorted = <<>> THEN <<x>>
    ELSE IF Head(sorted).deletion_score > x.deletion_score
         THEN <<Head(sorted)>> \o InsertByScore_unstable(Tail(sorted), x)
         ELSE <<x>> \o sorted

\* list.sort(key=deletion_score, reverse=True): stable, descending
RECURSIVE InsertByScore(_, _)
InsertByScore(sorted, x) ==
    IF sorted = <<>> THEN <<x>>
    ELSE IF Head(sorted).deletion_score >= x.deletion_score
         THEN <<Head(sorted)>> \o InsertByScore(Tail(sorted), x)
         ELSE <<x>> \o sorted

RECURSIVE SortByScore(_)
SortByScore(items) ==
    IF items = <<>> THEN <<>>
    ELSE CHOOSE r \in {InsertByScore(sorted, items[Len(items)]) :
                          sorted \in {SortByScore(SubSeq(items, 1, Len(items) - 1))}} :
             TRUE

\* analyzer.py:58-62: the item with the three keys added, s being what
\* compute_deletion_score returned (analyzer.py:56)
Annotate(it, s, cfg) ==
    IF s.err # "none" THEN [err |-> s.err, item |-> it]
    ELSE LET g == _should_recommend_deletion(it, s.score, cfg)
         IN  IF g.err # "none" THEN [err |-> g.err, item |-> it]
             ELSE [err |-> "none",
                   item |-> [record |-> it,
                             deletion_score |-> s.score,
                             deletion_rationale |-> s.rationale,
                             deletion_recommended |-> g.recommended]]

\* the loop body, analyzer.py:56-62
AnalyzeOne(it, cfg) ==
    CHOOSE r \in {Annotate(it, s, cfg) : s \in {compute_deletion_score(it, cfg)}} : TRUE

\* analyzer.py:54-76 after the loop body has run for every item (each[i] is
\* its outcome for items[i]): an exception in the loop body leaves the loop
\* and the call; statistics.mean of no scores raises StatisticsError
AnalyzeResult(each) ==
    IF \E i \in 1..Len(each) : each[i].err # "none"
    THEN [err |-> each[CHOOSE i \in 1..Len(each) :
                            /\ each[i].err # "none"
                            /\ \A j \in 1..(i - 1) : each[j].err = "none"].err,
          items |-> <<>>]
    ELSE IF each = <<>>
    THEN [err |-> "StatisticsError", items |-> <<>>]
    ELSE [err |-> "none",
          items |-> SortByScore([i \in 1..Len(each) |-> each[i].item])]

\* Returns [err, items]
analyze_items(items, cfg) ==
    CHOOSE r \in {AnalyzeResult(each) :
                    each \in {[i \in 1..Len(items) |-> AnalyzeOne(items[i], cfg)]}} :
        TRUE

--------------------------------------------------------------------------
(* backend/agents/analyzer.py: Analyzer, the sibling scorer on the 0-100    *)
(* scale.  Ratings are in tenths (RT in percent), file_size_gb in tenths of *)
(* a GB, component scores in twelfths of a point (100 -> 1200), the weights *)
(* in tenths, so the weighted total is in 1/120 of a point.                 *)

\* Python truthiness of a number read with .get(): None, a missing key and
\* 0 are falsy
TruthyNumber(o) == o.tag = "val" /\ o.v # 0

\* round(n / d, 0) for n >= 0: to the nearest integer, a tie to the even one
RoundHalfEven(n, d) ==
    LET q == n \div d
        r == n % d
    IN  IF 2 * r < d THEN q
        ELSE IF 2 * r > d THEN q + 1
        ELSE IF q % 2 = 0 THEN q ELSE q + 1

calculate_rating_score(movie) ==
    LET scores ==
            (IF TruthyNumber(movie.omdb_imdb_rating)
             THEN <<100 - movie.omdb_imdb_rating.v>> ELSE <<>>)
            \o (IF IsNotNone(movie.omdb_rotten_tomatoes)
                THEN <<100 - movie.omdb_rotten_tomatoes.v>> ELSE <<>>)
            \o (IF TruthyNumber(movie.tmdb_rating)
                THEN <<100 - movie.tmdb_rating.v>> ELSE <<>>)
            \o (IF TruthyNumber(movie.plex_rating)
                THEN <<100 - movie.plex_rating.v>> ELSE <<>>)
    IN  IF scores = <<>> THEN 600
        ELSE (12 \div Len(scores)) * SumSeq(scores)

calculate_play_count_score(movie) ==
    LET play_count == movie.view_count
    IN  IF play_count = 0 THEN 1200
        ELSE IF play_count = 1 THEN 840
        ELSE IF play_count <= 3 THEN 480
        ELSE 0

\* min((size_gb / 20) * 100, 100)
calculate_file_size_score(movie) ==
    LET size_gb == IF movie.file_size_gb.tag = "val" THEN movie.file_size_gb.v ELSE 0
    IN  Min(6 * size_gb, 1200)

\* a date fromisoformat rejects is caught by the bare except
calculate_age_score(movie) ==
    IF ~Truthy(movie.last_viewed) THEN 600
    ELSE IF movie.last_viewed.tag = "malformed" THEN 600
    ELSE LET days_ago == movie.last_viewed.v
         IN  IF days_ago > 730 THEN 1200
             ELSE IF days_ago > 365 THEN 840
             ELSE IF days_ago > 180 THEN 480
             ELSE 0

calculate_quality_score(movie) ==
    LET content == IF movie.content_rating \in {"Not Rated", "Unrated"} THEN 30 ELSE 0
        duration == IF movie.duration_minutes < 60 \/ movie.duration_minutes > 180
                    THEN 20 ELSE 0
    IN  6 * (content + duration)

\* the movie with delete_score (tenths of a point, after round(..., 1)),
\* delete_reason and component_scores (tenths) added
analyze_movie(movie) ==
    LET rating_score == calculate_rating_score(movie)
        play_count_score == calculate_play_count_score(movie)
        file_size_score == calculate_file_size_score(movie)
        age_score == calculate_age_score(movie)
        quality_score == calculate_quality_score(movie)
        delete_score == 3 * rating_score + 3 * play_count_score
                        + 2 * file_size_score + age_score + quality_score
        reasons ==
            (IF play_count_score > 960 THEN <<"Never watched">>
             ELSE IF play_count_score > 600 THEN <<"Rarely watched">> ELSE <<>>)
            \o (IF rating_score > 840 THEN <<"Poor ratings">>
                ELSE IF rating_score > 600 THEN <<"Below average ratings">> ELSE <<>>)
            \o (IF file_size_score > 720 THEN <<"Large file">> ELSE <<>>)
            \o (IF age_score > 840 THEN <<"Not watched in years">> ELSE <<>>)
    IN  [movie |-> movie,
         delete_score |-> RoundHalfEven(delete_score, 12),
         delete_reason |-> IF reasons # <<>> THEN reasons ELSE <<"Low priority">>,
         component_scores |->
             [rating |-> RoundHalfEven(10 * rating_score, 12),
              play_count |-> RoundHalfEven(10 * play_count_score, 12),
              file_size |-> RoundHalfEven(10 * file_size_score, 12),
              age |-> RoundHalfEven(10 * age_score, 12),
              quality |-> RoundHalfEven(10 * quality_score, 12)]]

\* list.sort(key=lambda x: x['delete_score'], reverse=True): an entry comes
\* after the entries with a higher score and after the entries with the same
\* score that stood before it (the sort is stable)
PlaceByDeleteScore(analyzed) ==
    [i \in 1..Len(analyzed) |->
        1 + Cardinality({j \in 1..Len(analyzed) :
                            \/ analyzed[j].delete_score > analyzed[i].delete_score
                            \/ /\ analyzed[j].delete_score = analyzed[i].delete_score
                               /\ j < i})]

SortByDeleteScore(analyzed) ==
    CHOOSE sorted \in {[p \in 1..Len(analyzed) |->
                           analyzed[CHOOSE i \in 1..Len(analyzed) : place[i] = p]] :
                          place \in {PlaceByDeleteScore(analyzed)}} : TRUE

analyze_movies(batch) ==
    SortByDeleteScore([i \in 1..Len(batch) |-> analyze_movie(batch[i])])

\* sum(m.get('file_size_gb', 0) for m in ...), in tenths of a GB, added up
\* half by half
RECURSIVE SumFileSize(_)
SumFileSize(ms) ==
    IF ms = <<>> THEN 0
    ELSE IF Len(ms) = 1
         THEN IF ms[1].movie.file_size_gb.tag = "val"
              THEN ms[1].movie.file_size_gb.v ELSE 0
         ELSE CHOOSE r \in {left + right :
                               left \in {SumFileSize(SubSeq(ms, 1, Len(ms) \div 2))},
                               right \in {SumFileSize(SubSeq(ms, Len(ms) \div 2 + 1,
                                                             Len(ms)))}} : TRUE

\* analyzed_movies[:n] if len(analyzed_movies) >= n else analyzed_movies
TopSlice_empty(ranked, n) ==
    IF Len(ranked) >= n THEN SubSeq(ranked, 1, n) ELSE <<>>

TopSlice(ranked, n) ==
    IF Len(ranked) >= n THEN SubSeq(ranked, 1, n)
    ELSE ranked

\* the report of generate_report; the sizes are multiples of 0.1 GB, which
\* round(..., 1) brings back to the tenth the float sum strayed from
generate_report(ranked) ==
    LET top_50 == TopSlice(ranked, 50)
        top_100 == TopSlice(ranked, 100)
        top_200 == TopSlice(ranked, 200)
    IN  [generated |-> TRUE,
         total_movies |-> Len(ranked),
         total_size_gb |-> RoundHalfEven(SumFileSize(ranked), 1),
         never_watched |->
             Cardinality({i \in 1..Len(ranked) :
                             ranked[i].movie.view_count = 0}),
         low_rated |->
             Cardinality({i \in 1..Len(ranked) :
                             ranked[i].delete_score > 700}),
         space_recovery |->
             [top_50 |-> RoundHalfEven(SumFileSize(top_50), 1),
              top_100 |-> RoundHalfEven(SumFileSize(top_100), 1),
              top_200 |-> RoundHalfEven(SumFileSize(top_200), 1)]]

--------------------------------------------------------------------------
(* BackupManager.  A payload is a JSON list of dicts; a dict is the         *)
(* sequence of its <<key, value>> pairs in insertion order.  A backup type  *)
(* is the sequence of the words its name joins with "_".                    *)

\* the keys of the model in the order sorted() gives them
KeyOrder == <<"a", "b", "deletion_recommended", "deletion_score", "rating_key">>

KeyRank(k) == CHOOSE i \in 1..Len(KeyOrder) : KeyOrder[i] = k

RECURSIVE InsertByKey(_, _)
InsertByKey(sorted, pair) ==
    IF sorted = <<>> THEN <<pair>>
    ELSE IF KeyRank(Head(sorted)[1]) <= KeyRank(pair[1])
         THEN <<Head(sorted)>> \o InsertByKey(Tail(sorted), pair)
         ELSE <<pair>> \o sorted

RECURSIVE SortKeys(_)
SortKeys(dict) ==
    IF dict = <<>> THEN <<>>
    ELSE InsertByKey(SortKeys(Tail(dict)), Head(dict))

\* json.dumps(data, sort_keys=...): the text, as the list of its dicts with
\* the pairs in the order they are written
dumps(data, sort_keys) ==
    [i \in 1..Len(data) |-> IF sort_keys THEN SortKeys(data[i]) ELSE data[i]]

\* hashlib.sha256(text).hexdigest(): taken to be collision-free
sha256(text) == <<"sha256", text>>

\* Python == on dicts (pairs compared regardless of order) and on lists
DictEq(d, e) == {d[i] : i \in 1..Len(d)} = {e[i] : i \in 1..Len(e)}
DataEq(x, y) == Len(x) = Len(y) /\ \A i \in 1..Len(x) : DictEq(x[i], y[i])

\* backup.py:62-64
BackupFilename(backup_type, timestamp) ==
    [backup_type |-> backup_type, timestamp |-> timestamp]

\* BackupContent with the checksum taken over the text as written to the
\* file, keys unsorted
BackupContent_unsorted(data, backup_type, metadata, time) ==
    [created_at |-> time,
     backup_type |-> backup_type,
     metadata |-> metadata,
     data |-> dumps(data, FALSE),
     checksum |-> Val(sha256(dumps(data, FALSE))),
     mtime |-> time,
     written |-> data]

\* backup.py:66-80: the content of the file written.  json.dump keeps the
\* insertion order of the keys of data.
BackupContent(data, backup_type, metadata, time) ==
    [created_at |-> time,
     backup_type |-> backup_type,
     metadata |-> metadata,
     data |-> dumps(data, FALSE),
     checksum |-> Val(sha256(dumps(data, TRUE))),
     mtime |-> time,
     written |-> data]      \* history: the payload create_backup was given

\* the directory after create_backup has written its file
create_backup(dir, data, backup_type, metadata, time) ==
    LET name == BackupFilename(backup_type, time)
    IN  [f \in DOMAIN dir \cup {name} |->
            IF f = name THEN BackupContent(data, backup_type, metadata, time)
            ELSE dir[f]]

\* backup.py:237-250
create_operation_record(dir, operation, items, dry_run, kwargs, time) ==
    create_backup(dir, items,
                  <<operation, IF dry_run THEN "dryrun" ELSE "executed">>,
                  [operation |-> operation, dry_run |-> dry_run,
                   item_count |-> Len(items), kwargs |-> kwargs],
                  time)

\* backup.py:105-127: [status, content]; the ValueError of a checksum
\* mismatch is raised again by the handler, nothing is returned
restore_backup(dir, name, verify_checksum) ==
    LET backup_content == dir[name]
        calculated_checksum == sha256(dumps(backup_content.data, TRUE))
    IN  IF /\ verify_checksum
           /\ backup_content.checksum.tag = "val"
           /\ calculated_checksum # backup_content.checksum.v
        THEN [status |-> "ValueError", content |-> <<>>]
        ELSE [status |-> "ok", content |-> backup_content]

IsPrefix(s, t) == Len(s) <= Len(t) /\ SubSeq(t, 1, Len(s)) = s

\* backup.py:144-146: Path.glob(f"{backup_type}_*.json"), or "*.json" when
\* no type is given.  The name of a file is its type and its timestamp
\* joined with "_", so the pattern matches the names that start with the
\* words of backup_type.
GlobMatches(backup_type, name) ==
    backup_type.tag # "val" \/ IsPrefix(backup_type.v, name.backup_type)

\* the lines json.dump(..., indent=2) writes for a dict of the payload
DictLines(d) == IF d = <<>> THEN 1 ELSE Len(d) + 2

RECURSIVE DataLines(_)
DataLines(data) ==
    IF data = <<>> THEN 0 ELSE DictLines(Head(data)) + DataLines(Tail(data))

\* Path.stat().st_size, counted in lines of the indented JSON text instead
\* of bytes: the braces, created_at, backup_type, the metadata dict, the
\* data list and the checksum; a file cut short is taken to be empty
st_size(dir, bad, f) ==
    IF f \in bad THEN 0
    ELSE 4 + (2 + Cardinality(DOMAIN dir[f].metadata))
           + (IF dir[f].data = <<>> THEN 1 ELSE 2 + DataLines(dir[f].data))
           + (IF dir[f].checksum.tag = "val" THEN 1 ELSE 0)

\* backup.py:145-149: the orders sorted(glob(pattern), key=st_mtime,
\* reverse=True) can give; files of equal mtime stay in the order glob
\* yields them, which is the directory's
SortedGlob(dir, backup_type) ==
    LET matching == {f \in DOMAIN dir : GlobMatches(backup_type, f)}
        n == Cardinality(matching)
    IN  {o \in [1..n -> matching] :
            /\ \A i, j \in 1..n : i # j => o[i] # o[j]
            /\ \A i, j \in 1..n : i < j => dir[o[i]].mtime >= dir[o[j]].mtime}

\* backup_files[:limit] for an integer limit
Slice(backup_files, limit) ==
    IF limit >= 0 THEN SubSeq(backup_files, 1, Min(limit, Len(backup_files)))
    ELSE SubSeq(backup_files, 1, Len(backup_files) + limit)

RECURSIVE ReadEntries(_, _, _)
\* backup.py:154-169: one entry per file that json.load can read
ReadEntries(dir, bad, backup_files) ==
    IF backup_files = <<>> THEN <<>>
    ELSE LET f == Head(backup_files)
         IN  (IF f \in bad THEN <<>>
              ELSE << [filename |-> f,
                       created_at |-> dir[f].created_at,
                       backup_type |-> dir[f].backup_type,
                       size_bytes |-> st_size(dir, bad, f),
                       metadata |-> dir[f].metadata] >>)
             \o ReadEntries(dir, bad, Tail(backup_files))

\* backup.py:129-171, backup_files being the sorted result of the glob
list_backups(dir, bad, backup_files, limit) ==
    ReadEntries(dir, bad,
                \* `if limit:` is false for None and for 0
                IF limit.tag = "val" /\ limit.v # 0
                THEN Slice(backup_files, limit.v) ELSE backup_files)

SecondsPerDay == 86400

\* CleanupFile with `<=` for `<` at backup.py:187
CleanupFile_inclusive(acc, bad, f, cutoff_date, unlink_fails) ==
    IF acc.dir[f].mtime <= cutoff_date /\ ~unlink_fails
    THEN [dir |-> [g \in DOMAIN acc.dir \ {f} |-> acc.dir[g]],
          deleted_count |-> acc.deleted_count + 1,
          deleted_size |-> acc.deleted_size + st_size(acc.dir, bad, f)]
    ELSE acc

\* backup.py:185-195: the loop body for the file f; a failing unlink is
\* logged and the loop goes on
CleanupFile(acc, bad, f, cutoff_date, unlink_fails) ==
    IF acc.dir[f].mtime < cutoff_date /\ ~unlink_fails
    THEN [dir |-> [g \in DOMAIN acc.dir \ {f} |-> acc.dir[g]],
          deleted_count |-> acc.deleted_count + 1,
          deleted_size |-> acc.deleted_size + st_size(acc.dir, bad, f)]
    ELSE acc

RECURSIVE CleanupLoop(_, _, _, _, _)
\* backup.py:184-195: the loop over the files todo of the directory
CleanupLoop(acc, bad, todo, cutoff_date, failing) ==
    IF todo = {} THEN acc
    ELSE LET f == CHOOSE g \in todo : TRUE
         IN  CHOOSE r \in {CleanupLoop(next, bad, todo \ {f}, cutoff_date, failing) :
                               next \in {CleanupFile(acc, bad, f, cutoff_date,
                                                     f \in failing)}} : TRUE

\* backup.py:173-201 at the clock reading time, failing being the files
\* whose unlink raises: [dir, deleted_count, deleted_size]
cleanup_old_backups(dir, bad, retention_days, time, failing) ==
    CleanupLoop([dir |-> dir, deleted_count |-> 0, deleted_size |-> 0], bad,
                DOMAIN dir, time - retention_days * SecondsPerDay, failing)

--------------------------------------------------------------------------
(* plexiq delete (commands/delete.py) and the GUI delete button *)

NoArgs == [dry_run |-> TRUE, confirm |-> TRUE, min_score |-> Absent,
           auto_analyze |-> TRUE]
\* _perform_deletion before its loop: the two counters, the items fetchItem
\* was called for, the items deleted, and what the server did for each item
NoPerform == [deleted_count |-> 0, failed_count |-> 0, attempted |-> {},
              deleted |-> {}, outcome |-> <<>>]

\* the dict json.dumps writes for a planned item (the keys the model keeps)
ItemDict(a) ==
    << <<"rating_key", a.record.rating_key>>,
       <<"deletion_score", a.deletion_score>>,
       <<"deletion_recommended", a.deletion_recommended>> >>

PlanData(plan) == [i \in 1..Len(plan) |-> ItemDict(plan[i])]

\* delete.py:110
Threshold(a, cfg) ==
    IF a.min_score.tag = "val" THEN a.min_score.v ELSE cfg.min_deletion_score

\* MeetsCriteria with the score comparison of delete.py:114 left out
MeetsCriteria_flag_only(a, threshold) ==
    a.deletion_recommended

\* delete.py:112-116, threshold in hundredths
MeetsCriteria(a, threshold) ==
    a.deletion_score >= threshold * 600 /\ a.deletion_recommended

RECURSIVE SelectPlan(_, _)
\* delete.py:112-116: [item for item in analyzed_items if ...]
SelectPlan(analyzed, threshold) ==
    IF analyzed = <<>> THEN <<>>
    ELSE (IF MeetsCriteria(Head(analyzed), threshold) THEN <<Head(analyzed)>> ELSE <<>>)
         \o SelectPlan(Tail(analyzed), threshold)

RECURSIVE SelectRecommended(_)
\* main_window.py:431-434: [item for item in analyzed_items if ...]
SelectRecommended(analyzed) ==
    IF analyzed = <<>> THEN <<>>
    ELSE (IF Head(analyzed).deletion_recommended THEN <<Head(analyzed)>> ELSE <<>>)
         \o SelectRecommended(Tail(analyzed))

DeleteUnused ==
    /\ library = <<>>
    /\ dpc = "unused"
    /\ args = NoArgs
    /\ items_to_delete = <<>>
    /\ perform = NoPerform
    /\ gpc = "unused"
    /\ gui_items = <<>>

\* no list_backups or cleanup_old_backups call since the directory changed
NoCall == [op |-> "none", backup_type |-> Absent, limit |-> Absent, entries |-> <<>>,
           retention_days |-> 0, before |-> <<>>, bad |-> {}, failing |-> {},
           deleted_count |-> 0, deleted_size |-> 0, logged |-> FALSE]

LedgerUnused ==
    /\ files = <<>>
    /\ now = 0
    /\ restored = [status |-> "none", name |-> <<>>, verify |-> FALSE, content |-> <<>>]
    /\ unreadable = {}
    /\ called = NoCall

NoResult == [err |-> "none", score |-> 0, rationale |-> <<>>, recommended |-> FALSE]

\* no report generated yet
NoReport == [generated |-> FALSE, total_movies |-> 0, total_size_gb |-> 0,
             never_watched |-> 0, low_rated |-> 0,
             space_recovery |-> [top_50 |-> 0, top_100 |-> 0, top_200 |-> 0]]

\* backend/api.py:34-41: analysis_state as the module defines it
IdleState == [status |-> "idle", progress |-> 0, error |-> Null]

ApiUnused ==
    /\ report = NoReport
    /\ analysis_state = IdleState
    /\ cached_results = Null
    /\ api = <<>>

ExtraUnused ==
    /\ movies = <<>>
    /\ analyzed_movies = <<>>
    /\ earlier = NoResult
    /\ elapsed = 0
    /\ ApiUnused

--------------------------------------------------------------------------
(* Scoring of one record: the loop body of MediaAnalyzer.analyze_items *)

ViewCounts == {0, 1, 3, 5}
ImdbValues == {Null, Val(10), Val(90)}
TmdbValues == {Absent, Val(90)}
RottenValues == {Absent, Null, Val(20), Val(90)}
SizeValues == {Absent, Val(3 * 1024), Val(15 * 1024)}
AddedValues == {Null, Malformed, Val(400)}
ViewedValues == {Null, Val(800)}
ResolutionValues == {Null, Val("sd"), Val("4k")}
CodecValues == {Null, Val("h264")}

Records ==
    [view_count : ViewCounts, imdb : ImdbValues, tmdb : TmdbValues,
     rotten_tomatoes : RottenValues, size_bytes : SizeValues,
     added_at : AddedValues, last_viewed_at : ViewedValues,
     resolution : ResolutionValues, video_codec : CodecValues]

InitScore ==
    /\ config \in Configs
    /\ item \in Records
    /\ spc = "start"
    /\ result = NoResult
    /\ DeleteUnused
    /\ LedgerUnused
    /\ ExtraUnused

\* analyzer.py:56-59
ComputeDeletionScore ==
    /\ spc = "start"
    /\ \E r \in {compute_deletion_score(item, config)} :
           /\ spc' = IF r.err = "none" THEN "scored" ELSE "raised"
           /\ result' = [NoResult EXCEPT !.err = r.err, !.score = r.score,
                                         !.rationale = r.rationale]
    /\ UNCHANGED <<config, item, dvars, lvars, xvars>>

\* analyzer.py:60-62
ShouldRecommendDeletion ==
    /\ spc = "scored"
    /\ \E g \in {_should_recommend_deletion(item, result.score, config)} :
           /\ spc' = IF g.err = "none" THEN "analyzed" ELSE "raised"
           /\ result' = [result EXCEPT !.err = g.err, !.recommended = g.recommended]
    /\ UNCHANGED <<config, item, dvars, lvars, xvars>>

NextScore == ComputeDeletionScore \/ ShouldRecommendDeletion

SpecScore == InitScore /\ [][NextScore]_vars

--------------------------------------------------------------------------
(* Config: construction from the environment, then set() calls at run time, *)
(* then the scoring of a record under the configuration as it stands        *)

\* the key paths set() is called with and the values it is given
SetKeys == {"weights.play_count", "weights.quality",
            "thresholds.min_deletion_score"}
SetValues == {0, 30, 90, 150}

\* the records scored under the configuration
ConfigRecords ==
    { [view_count |-> 0, imdb |-> Val(20), tmdb |-> Val(20),
       rotten_tomatoes |-> Val(20), size_bytes |-> Val(15 * 1024),
       added_at |-> Val(400), last_viewed_at |-> Null,
       resolution |-> Val("sd"), video_codec |-> Val("h264")],
      [view_count |-> 5, imdb |-> Val(90), tmdb |-> Val(90),
       rotten_tomatoes |-> Val(90), size_bytes |-> Val(3 * 1024),
       added_at |-> Val(400), last_viewed_at |-> Val(800),
       resolution |-> Val("4k"), video_codec |-> Val("h264")] }

\* config.py:33: _load_config has read the environment
InitConfig ==
    /\ config \in Environments
    /\ item \in ConfigRecords
    /\ spc = "loaded"
    /\ result = NoResult
    /\ DeleteUnused
    /\ LedgerUnused
    /\ ExtraUnused

\* config.py:34, 92-124: Config.__init__ validates; ValueError ends the program
ValidateConfig ==
    /\ spc = "loaded"
    /\ spc' = IF _validate_config(config) THEN "start" ELSE "config_error"
    /\ UNCHANGED <<config, item, result, dvars, lvars, xvars>>

\* config.py:156-172 set: the value is stored under the key path; the
\* MediaAnalyzer holds the same weights and thresholds dicts (analyzer.py:34-35)
ConfigSet(key_path, value) ==
    /\ spc = "start"
    /\ config' =
          IF key_path = "weights.play_count"
          THEN [config EXCEPT !.weights.play_count = value]
          ELSE IF key_path = "weights.quality"
          THEN [config EXCEPT !.weights.quality = value]
          ELSE [config EXCEPT !.min_deletion_score = value]
    /\ UNCHANGED <<item, spc, result, dvars, lvars, xvars>>

NextConfig ==
    \/ ValidateConfig
    \/ \E k \in SetKeys, v \in SetValues : ConfigSet(k, v)
    \/ ComputeDeletionScore
    \/ ShouldRecommendDeletion

SpecConfig == InitConfig /\ [][NextConfig]_vars

--------------------------------------------------------------------------
(* The delete workflow: library -> analysis -> plan -> ledger -> deletion *)

MaxItems == 2

\* a never-watched 15 GB SD file added 400 days ago, rated 2.0 everywhere
Stale ==
    [rating_key |-> Val(1), view_count |-> 0,
     imdb |-> Val(20), tmdb |-> Val(20), rotten_tomatoes |-> Val(20),
     size_bytes |-> Val(15 * 1024), added_at |-> Val(400),
     last_viewed_at |-> Null, resolution |-> Val("sd"),
     video_codec |-> Val("h264")]

LibraryRecords ==
    { Stale,
      \* watched often and recently, rated 9.0 everywhere
      [Stale EXCEPT !.rating_key = Val(2), !.view_count = 5, !.imdb = Val(90),
                    !.tmdb = Val(90), !.rotten_tomatoes = Val(90),
                    !.last_viewed_at = Val(100), !.resolution = Val("4k")],
      \* rated 9.0 by IMDb and TMDb, no Rotten Tomatoes key
      [Stale EXCEPT !.rating_key = Val(3), !.imdb = Val(90), !.tmdb = Val(90),
                    !.rotten_tomatoes = Absent],
      \* one rating of 9.0 among low ones
      [Stale EXCEPT !.rating_key = Val(4), !.imdb = Val(90)],
      \* an added_at string that is no ISO date
      [Stale EXCEPT !.rating_key = Val(5), !.added_at = Malformed],
      \* as the collector emits an item no rating source knows
      [Stale EXCEPT !.rating_key = Val(6), !.imdb = Null, !.tmdb = Null,
                    !.rotten_tomatoes = Null, !.view_count = 5,
                    !.last_viewed_at = Val(100), !.resolution = Val("4k")],
      \* as the collector emits an item without media information
      [Stale EXCEPT !.rating_key = Val(7), !.resolution = Null,
                    !.video_codec = Null],
      \* an item whose ratingKey the server did not send
      [Stale EXCEPT !.rating_key = Null] }

Libraries == UNION {[1..n -> LibraryRecords] : n \in 0..MaxItems}

DeleteConfigs == {c \in Configs : c.weights = DefaultWeights}

\* --min-score: not given, below and above the configured threshold
MinScoreOptions == {Absent, Val(50), Val(90)}

Init ==
    /\ config \in DeleteConfigs
    /\ library \in Libraries
    /\ dpc = "idle"
    /\ args = NoArgs
    /\ items_to_delete = <<>>
    /\ perform = NoPerform
    /\ gpc = "idle"
    /\ gui_items = <<>>
    /\ item = Stale /\ spc = "unused" /\ result = NoResult
    /\ LedgerUnused
    /\ ExtraUnused

\* delete.py:51-88: the command starts with its options
DeleteInvoke(dry_run, confirm, min_score, auto_analyze) ==
    /\ dpc = "idle" /\ gpc = "idle"
    /\ dpc' = "PLANNING"
    /\ args' = [dry_run |-> dry_run, confirm |-> confirm,
                min_score |-> min_score, auto_analyze |-> auto_analyze]
    /\ UNCHANGED <<svars, xvars, lvars, library, items_to_delete, perform, gpc, gui_items>>

\* delete.py:90-135: analysis and the plan.  No --input file is given.
DeletePlan ==
    /\ dpc = "PLANNING"
    /\ \E analysis \in {analyze_items(library, config)} :
       \E plan \in {SelectPlan(analysis.items, Threshold(args, config))} :
           IF ~args.auto_analyze \/ analysis.err # "none"
           THEN dpc' = "FAILED" /\ UNCHANGED items_to_delete
           ELSE IF plan = <<>>
           THEN dpc' = "NO_ITEMS" /\ UNCHANGED items_to_delete
           ELSE dpc' = "PLANNED" /\ items_to_delete' = plan
    /\ UNCHANGED <<svars, xvars, lvars, library, args, perform, gpc, gui_items>>

\* DeleteBackup with the exception of a failed write swallowed
DeleteBackup_swallowed(write_ok) ==
    /\ dpc = "PLANNED"
    /\ dpc' = "BACKED_UP"
    /\ files' = IF write_ok
                THEN create_operation_record(
                         files, "delete", PlanData(items_to_delete),
                         args.dry_run, Threshold(args, config), now)
                ELSE files
    /\ UNCHANGED <<svars, xvars, now, restored, unreadable, called, library, args,
                   items_to_delete, perform, gpc, gui_items>>

\* delete.py:137-146: the plan is written to the ledger; a failed write
\* raises and ends the command (delete.py:170-172)
DeleteBackup(write_ok) ==
    /\ dpc = "PLANNED"
    /\ IF write_ok
       THEN /\ files' = create_operation_record(
                            files, "delete", PlanData(items_to_delete),
                            args.dry_run, Threshold(args, config), now)
            /\ dpc' = "BACKED_UP"
       ELSE /\ dpc' = "FAILED"
            /\ UNCHANGED files
    /\ UNCHANGED <<svars, xvars, now, restored, unreadable, called, library, args,
                   items_to_delete, perform, gpc, gui_items>>

\* DeleteConfirmationCheck with the dry-run branch of delete.py:160 lost
DeleteConfirmationCheck_no_dry_run ==
    /\ dpc = "BACKED_UP"
    /\ dpc' = IF ~args.dry_run /\ args.confirm THEN "AWAITING_CONFIRMATION"
              ELSE "EXECUTING"
    /\ UNCHANGED <<svars, xvars, lvars, library, args, items_to_delete, perform,
                   gpc, gui_items>>

\* delete.py:148-165: which way the command goes after the backup
DeleteConfirmationCheck ==
    /\ dpc = "BACKED_UP"
    /\ dpc' = IF ~args.dry_run /\ args.confirm THEN "AWAITING_CONFIRMATION"
              ELSE IF args.dry_run THEN "DRY_RUN_REPORTED"
              ELSE "EXECUTING"
    /\ UNCHANGED <<svars, xvars, lvars, library, args, items_to_delete, perform,
                   gpc, gui_items>>

\* delete.py:151-165: the answer to Confirm.ask
DeletePrompt(confirmed) ==
    /\ dpc = "AWAITING_CONFIRMATION"
    /\ dpc' = IF confirmed THEN "EXECUTING" ELSE "CANCELLED"
    /\ UNCHANGED <<svars, xvars, lvars, library, args, items_to_delete, perform,
                   gpc, gui_items>>

DeletionOutcomes == {"deleted", "fetch_error", "delete_error"}

\* DeleteItem with the try/except around the loop instead of inside it: the
\* first failure ends the batch
DeleteItem_uncaught(acc, it, i, outcome) ==
    IF acc.failed_count > 0 THEN acc
    ELSE IF it.record.rating_key.tag # "val" \/ it.record.rating_key.v = 0
    THEN [acc EXCEPT !.failed_count = @ + 1]
    ELSE IF outcome = "deleted"
    THEN [acc EXCEPT !.attempted = @ \cup {i}, !.deleted = @ \cup {i},
                     !.deleted_count = @ + 1]
    ELSE [acc EXCEPT !.attempted = @ \cup {i}, !.failed_count = @ + 1]

\* delete.py:223-240: the loop body for the i-th item, outcome being what
\* fetchItem and delete do for it
DeleteItem(acc, it, i, outcome) ==
    \* if not rating_key: failed_count += 1; continue
    IF it.record.rating_key.tag # "val" \/ it.record.rating_key.v = 0
    THEN [acc EXCEPT !.failed_count = @ + 1]
    ELSE IF outcome = "deleted"
    THEN [acc EXCEPT !.attempted = @ \cup {i}, !.deleted = @ \cup {i},
                     !.deleted_count = @ + 1]
    \* except Exception: failed_count += 1
    ELSE [acc EXCEPT !.attempted = @ \cup {i}, !.failed_count = @ + 1]

\* delete.py:220-240: the counters after the loop has run for the first n
\* items
RECURSIVE PerformLoop(_, _, _)
PerformLoop(items, outcome, n) ==
    IF n = 0 THEN [NoPerform EXCEPT !.outcome = outcome]
    ELSE CHOOSE r \in {DeleteItem(acc, items[n], n, outcome[n]) :
                          acc \in {PerformLoop(items, outcome, n - 1)}} : TRUE

\* delete.py:220-242: the counters when the loop ends
DeletionResult(items, outcome) == PerformLoop(items, outcome, Len(items))

\* delete.py:209-242 _perform_deletion: connected tells whether PlexServer()
\* returns; an exception there ends the command (delete.py:170-172)
PerformDeletion(connected) ==
    /\ dpc = "EXECUTING"
    /\ IF ~connected
       THEN dpc' = "FAILED" /\ UNCHANGED perform
       ELSE /\ \E outcome \in [1..Len(items_to_delete) -> DeletionOutcomes] :
                  perform' = DeletionResult(items_to_delete, outcome)
            /\ dpc' = "COMPLETED"
    /\ UNCHANGED <<svars, xvars, lvars, library, args, items_to_delete, gpc, gui_items>>

\* main_window.py:52-75, 385-419: the analysis thread and its two signals
GuiAnalyze ==
    /\ gpc = "idle" /\ dpc = "idle"
    /\ library # <<>>
    /\ \E analysis \in {analyze_items(library, config)} :
           IF analysis.err # "none"
           THEN gpc' = "analysis_error" /\ UNCHANGED gui_items
           ELSE gpc' = "analyzed" /\ gui_items' = analysis.items
    /\ UNCHANGED <<svars, xvars, lvars, library, dpc, args, items_to_delete, perform>>

\* main_window.py:429-449: the delete button
GuiDeleteDryRun(accepted) ==
    /\ gpc = "analyzed"
    /\ \E recommended_items \in {SelectRecommended(gui_items)} :
           gpc' = IF recommended_items = <<>> THEN "no_items"
                  ELSE IF accepted THEN "dry_run_complete"
                  ELSE "dialog_closed"
    /\ UNCHANGED <<svars, xvars, lvars, library, dpc, args, items_to_delete, perform,
                   gui_items>>

Next ==
    \/ \E d \in BOOLEAN, c \in BOOLEAN, m \in MinScoreOptions, a \in BOOLEAN :
          DeleteInvoke(d, c, m, a)
    \/ DeletePlan
    \/ \E ok \in BOOLEAN : DeleteBackup(ok)
    \/ DeleteConfirmationCheck
    \/ \E confirmed \in BOOLEAN : DeletePrompt(confirmed)
    \/ \E connected \in BOOLEAN : PerformDeletion(connected)
    \/ GuiAnalyze
    \/ \E accepted \in BOOLEAN : GuiDeleteDryRun(accepted)

Spec == Init /\ [][Next]_vars

--------------------------------------------------------------------------
(* Ranking of a batch: MediaAnalyzer.analyze_items (through the analysis    *)
(* thread of the main window) and Analyzer.analyze_movies of the backend    *)

MaxBatch == 3

RankConfigs ==
    {c \in Configs : c.min_deletion_score = 70 /\ c.never_delete_rating = 80}

\* what the items of a batch have in common
RankBases ==
    { Stale,
      [Stale EXCEPT !.imdb = Null, !.tmdb = Null, !.rotten_tomatoes = Absent,
                    !.size_bytes = Val(3 * 1024), !.resolution = Val("4k"),
                    !.last_viewed_at = Val(100)],
      [Stale EXCEPT !.rotten_tomatoes = Null] }

\* five items alike except for their view counts 0..4, in any input order
ViewBatches ==
    { [i \in 1..5 |-> [b EXCEPT !.view_count = p[i] - 1, !.rating_key = Val(p[i])]] :
        b \in RankBases, p \in Permutations(1..5) }

SizeSteps ==
    {Absent, Val(0), Val(1023), Val(1024), Val(5 * 1024 - 1), Val(5 * 1024),
     Val(10 * 1024), Val(15 * 1024)}

\* two items alike except for their sizes
SizePairs ==
    { << [b EXCEPT !.size_bytes = s1, !.rating_key = Val(1)],
         [b EXCEPT !.size_bytes = s2, !.rating_key = Val(2)] >> :
        b \in RankBases, s1 \in SizeSteps, s2 \in SizeSteps }

\* items some of which score alike
RankRecords ==
    { [Stale EXCEPT !.view_count = v, !.rating_key = Val(v + 1), !.size_bytes = s] :
        v \in {0, 2, 3}, s \in {Val(3 * 1024), Val(4 * 1024)} }

RankBatches ==
    ViewBatches \cup SizePairs
    \cup UNION {[1..n -> RankRecords] : n \in 1..MaxBatch}

\* the movie of the backend's own test (analyzer.py:222-231)
TestMovie ==
    [rating_key |-> 1, view_count |-> 0, file_size_gb |-> Val(85),
     omdb_imdb_rating |-> Val(32), omdb_rotten_tomatoes |-> Val(15),
     tmdb_rating |-> Val(35), plex_rating |-> Val(0), last_viewed |-> Null,
     content_rating |-> "PG-13", duration_minutes |-> 100]

MovieBases ==
    { TestMovie,
      [TestMovie EXCEPT !.omdb_imdb_rating = Absent, !.omdb_rotten_tomatoes = Null,
                        !.tmdb_rating = Null, !.last_viewed = Malformed,
                        !.content_rating = "Not Rated", !.duration_minutes = 0] }

MovieSizes ==
    {Absent, Val(0), Val(50), Val(85), Val(199), Val(200), Val(300)}

MovieSizePairs ==
    { << [b EXCEPT !.file_size_gb = s1, !.rating_key = 1],
         [b EXCEPT !.file_size_gb = s2, !.rating_key = 2] >> :
        b \in MovieBases, s1 \in MovieSizes, s2 \in MovieSizes }

MovieRecords ==
    { [b EXCEPT !.view_count = v, !.rating_key = v + 1] :
        b \in MovieBases, v \in {0, 2, 3} }

MovieBatches ==
    MovieSizePairs \cup UNION {[1..n -> MovieRecords] : n \in 1..MaxBatch}

InitRank ==
    /\ \/ config \in RankConfigs /\ library \in RankBatches /\ movies = <<>>
       \/ config = DefaultConfig /\ library = <<>> /\ movies \in MovieBatches
    /\ analyzed_movies = <<>>
    /\ earlier = NoResult
    /\ elapsed = 0
    /\ ApiUnused
    /\ dpc = "idle"
    /\ args = NoArgs
    /\ items_to_delete = <<>>
    /\ perform = NoPerform
    /\ gpc = "idle"
    /\ gui_items = <<>>
    /\ item = Stale /\ spc = "unused" /\ result = NoResult
    /\ LedgerUnused

\* backend/agents/analyzer.py:178-189 (called at backend/api.py:138-139)
AnalyzeMovies ==
    /\ movies # <<>>
    /\ analyzed_movies = <<>>
    /\ \E analyzed \in {analyze_movies(movies)} : analyzed_movies' = analyzed
    /\ UNCHANGED <<svars, dvars, lvars, movies, earlier, elapsed, report,
                   analysis_state, cached_results, api>>

NextRank == GuiAnalyze \/ AnalyzeMovies

SpecRank == InitRank /\ [][NextRank]_vars

--------------------------------------------------------------------------
(* The backend's report over a ranked batch: batches shorter than, as long  *)
(* as and longer than each of the three cuts of the report                  *)

MaxMovies == 250

ReportLengths == {1, 49, 50, 51, 99, 100, 101, 199, 200, 201, MaxMovies}

ReportPatterns == 1..4

\* the i-th movie of a batch: sizes from 3.5 to 21 GB, one movie in eleven with
\* no size, view counts from 0 to 2, ratings from poor to good
ReportMovie(k, i) ==
    [TestMovie EXCEPT
        !.rating_key = i,
        !.view_count = (i + k) % 3,
        !.file_size_gb = IF i % 11 = 0 THEN Absent ELSE Val(35 * (1 + ((i * k) % 6))),
        !.omdb_imdb_rating = Val(10 + 10 * ((i + 2 * k) % 8)),
        !.tmdb_rating = IF i % 5 = 0 THEN Null ELSE Val(10 + 20 * ((i * k) % 4))]

ReportBatches ==
    { [i \in 1..n |-> ReportMovie(k, i)] : n \in ReportLengths, k \in ReportPatterns }

InitReport ==
    /\ config = DefaultConfig
    /\ library = <<>>
    /\ movies \in ReportBatches
    /\ analyzed_movies = <<>>
    /\ earlier = NoResult
    /\ elapsed = 0
    /\ ApiUnused
    /\ dpc = "idle"
    /\ args = NoArgs
    /\ items_to_delete = <<>>
    /\ perform = NoPerform
    /\ gpc = "idle"
    /\ gui_items = <<>>
    /\ item = Stale /\ spc = "unused" /\ result = NoResult
    /\ LedgerUnused

\* run_full_analysis, api.py:139-145: the report follows the ranking
GenerateReport ==
    /\ analyzed_movies # <<>>
    /\ ~report.generated
    /\ \E r \in {generate_report(analyzed_movies)} : report' = r
    /\ UNCHANGED <<svars, dvars, lvars, movies, analyzed_movies, earlier, elapsed,
                   analysis_state, cached_results, api>>

NextReport == AnalyzeMovies \/ GenerateReport

SpecReport == InitReport /\ [][NextReport]_vars

--------------------------------------------------------------------------
(* The HTTP API of the backend.  app.run serves every request on a thread   *)
(* of its own, so the handlers of several requests interleave at the places *)
(* where they read and write the module's globals.                          *)

MaxRequests == 3

Requests == 1..MaxRequests

\* a request that has not arrived; pc is the place its handler has reached,
\* movies the local of run_full_analysis, code the status of the answer
NoRequest ==
    [pc |-> "none", force_refresh |-> FALSE, movies |-> <<>>, code |-> 0,
     cached |-> FALSE]

\* what collect_all_movies can bring back, ratings included
ApiLibraries ==
    { <<TestMovie>>,
      <<TestMovie, [TestMovie EXCEPT !.rating_key = 2, !.view_count = 5]>> }

\* the results dict of run_full_analysis (generated_at left out)
Results(collected) ==
    CHOOSE r \in {[movies |-> ranked, report |-> generate_report(ranked)] :
                     ranked \in {analyze_movies(collected)}} : TRUE

\* startup: load_cache brings a fresh cache file back, if there is one
InitApi ==
    /\ config = DefaultConfig
    /\ library = <<>>
    /\ movies = <<>>
    /\ analyzed_movies = <<>>
    /\ earlier = NoResult
    /\ elapsed = 0
    /\ report = NoReport
    /\ analysis_state = IdleState
    /\ \/ cached_results = Null
       \/ cached_results = Val(Results(<<TestMovie>>))
    /\ api = [r \in Requests |-> NoRequest]
    /\ dpc = "idle"
    /\ args = NoArgs
    /\ items_to_delete = <<>>
    /\ perform = NoPerform
    /\ gpc = "idle"
    /\ gui_items = <<>>
    /\ item = Stale /\ spc = "unused" /\ result = NoResult
    /\ LedgerUnused

ApiRest == <<svars, dvars, lvars, movies, analyzed_movies, earlier, elapsed, report>>

\* the Response a handler returns
Answer(r, code, cached) ==
    [api EXCEPT ![r].pc = "done", ![r].code = code, ![r].cached = cached]

\* trigger_analysis up to the call of run_full_analysis, api.py:188-209
TriggerAnalysis(r, force_refresh) ==
    /\ api[r].pc = "none"
    /\ IF ~force_refresh /\ cached_results.tag = "val"
       THEN api' = [Answer(r, 200, TRUE) EXCEPT ![r].force_refresh = force_refresh]
       ELSE IF analysis_state.status \in {"collecting", "enriching", "analyzing"}
       THEN api' = [Answer(r, 409, FALSE) EXCEPT ![r].force_refresh = force_refresh]
       ELSE api' = [api EXCEPT ![r].pc = "run", ![r].force_refresh = force_refresh]
    /\ UNCHANGED <<analysis_state, cached_results, ApiRest>>

\* run_full_analysis, api.py:97-101
StartRun(r) ==
    /\ api[r].pc = "run"
    /\ analysis_state' = [analysis_state EXCEPT !.status = "collecting", !.progress = 0]
    /\ api' = [api EXCEPT ![r].pc = "collecting"]
    /\ UNCHANGED <<cached_results, ApiRest>>

\* the except clause of run_full_analysis, api.py:163-168, and that of
\* trigger_analysis, api.py:216-220
Failed(r, message) ==
    /\ analysis_state' = [analysis_state EXCEPT !.status = "error",
                                                !.error = Val(message),
                                                !.progress = 0]
    /\ api' = Answer(r, 500, FALSE)

\* run_full_analysis, api.py:103-118
Collect(r, connected, collected) ==
    /\ api[r].pc = "collecting"
    /\ IF ~connected THEN Failed(r, "Failed to connect to Plex server")
       ELSE IF collected = <<>> THEN Failed(r, "No movies found in library")
       ELSE /\ analysis_state' = [analysis_state EXCEPT !.status = "enriching",
                                                        !.progress = 15]
            /\ api' = [api EXCEPT ![r].pc = "enriching", ![r].movies = collected]
    /\ UNCHANGED <<cached_results, ApiRest>>

\* run_full_analysis, api.py:120-136
Enrich(r) ==
    /\ api[r].pc = "enriching"
    /\ analysis_state' = [analysis_state EXCEPT !.status = "analyzing", !.progress = 65]
    /\ api' = [api EXCEPT ![r].pc = "analyzing"]
    /\ UNCHANGED <<cached_results, ApiRest>>

\* run_full_analysis, api.py:138-161, with save_cache, api.py:72-89, which
\* keeps the old cache when the file cannot be written
Analyze(r, saved) ==
    /\ api[r].pc = "analyzing"
    /\ \E results \in {Results(api[r].movies)} :
          cached_results' = IF saved THEN Val(results) ELSE cached_results
    /\ analysis_state' = [analysis_state EXCEPT !.status = "complete", !.progress = 100]
    /\ api' = Answer(r, 200, FALSE)
    /\ UNCHANGED ApiRest

\* clear_cache, api.py:321-335
ClearCache ==
    /\ cached_results' = Null
    /\ UNCHANGED <<analysis_state, api, ApiRest>>

NextApi ==
    \/ \E r \in Requests, force_refresh \in BOOLEAN : TriggerAnalysis(r, force_refresh)
    \/ \E r \in Requests : StartRun(r)
    \/ \E r \in Requests, connected \in BOOLEAN, collected \in {<<>>} \cup ApiLibraries :
          Collect(r, connected, collected)
    \/ \E r \in Requests : Enrich(r)
    \/ \E r \in Requests, saved \in BOOLEAN : Analyze(r, saved)
    \/ ClearCache

SpecApi == InitApi /\ [][NextApi]_vars

--------------------------------------------------------------------------
(* The ledger on its own: writes, restores, the clock, and changes made to  *)
(* a stored file behind the program's back                                  *)

MaxTime == 1
MaxFiles == 2
MaxDays == 2

BackupTypes == {<<"analysis">>, <<"delete", "dryrun">>}

Dicts ==
    { << <<"a", 1>> >>,
      << <<"a", 1>>, <<"b", 2>> >>,
      << <<"b", 2>>, <<"a", 1>> >>,      \* the same dict, keys inserted b first
      << <<"b", 1>>, <<"a", 2>> >> }

Payloads == {<<>>} \cup {<<d>> : d \in Dicts}

NoRestore == [status |-> "none", name |-> <<>>, verify |-> FALSE, content |-> <<>>]

InitLedger ==
    /\ files = <<>>
    /\ now = 0
    /\ restored = NoRestore
    /\ unreadable = {}
    /\ called = NoCall
    /\ config = DefaultConfig
    /\ item = Stale /\ spc = "unused" /\ result = NoResult
    /\ DeleteUnused
    /\ ExtraUnused

\* datetime.now() moves on
Tick ==
    /\ now < MaxTime
    /\ now' = now + 1
    /\ restored' = NoRestore
    /\ called' = NoCall
    /\ UNCHANGED <<svars, xvars, dvars, files, unreadable>>

\* backup.py:38-89 create_backup; a failed write raises (backup.py:87-89)
CreateBackup(data, backup_type, write_ok) ==
    /\ \/ BackupFilename(backup_type, now) \in DOMAIN files
       \/ Cardinality(DOMAIN files) < MaxFiles
    /\ files' = IF write_ok
                THEN create_backup(files, data, backup_type,
                                   [item_count |-> Len(data)], now)
                ELSE files
    /\ unreadable' = IF write_ok THEN unreadable \ {BackupFilename(backup_type, now)}
                     ELSE unreadable
    /\ restored' = NoRestore
    /\ called' = NoCall
    /\ UNCHANGED <<svars, xvars, dvars, now>>

\* the data of a stored file is changed out-of-band; one file at a time
Tamper(name, data) ==
    /\ name \in DOMAIN files
    /\ \A f \in DOMAIN files : DataEq(files[f].data, files[f].written)
    /\ ~DataEq(data, files[name].data)
    /\ files' = [files EXCEPT ![name].data = data]
    /\ restored' = NoRestore
    /\ called' = NoCall
    /\ UNCHANGED <<svars, xvars, dvars, now, unreadable>>

\* a JSON file create_backup did not write is put in the backup directory
\* (an export of another tool, an entry made by hand): it has no 'checksum'
\* key.  `plexiq backup restore FILENAME` takes any file of the directory.
ForeignName == BackupFilename(<<"manual">>, 0)

PlaceFile(data) ==
    /\ ForeignName \notin DOMAIN files
    /\ Cardinality(DOMAIN files) < MaxFiles
    /\ files' = [f \in DOMAIN files \cup {ForeignName} |->
                    IF f = ForeignName
                    THEN [created_at |-> now,
                          backup_type |-> <<"manual">>,
                          metadata |-> [item_count |-> Len(data)],
                          data |-> data,
                          checksum |-> Absent,
                          mtime |-> now,
                          written |-> data]
                    ELSE files[f]]
    /\ restored' = NoRestore
    /\ called' = NoCall
    /\ UNCHANGED <<svars, xvars, dvars, now, unreadable>>

\* backup.py:91-127 restore_backup
RestoreBackup(name, verify_checksum) ==
    /\ name \in DOMAIN files
    /\ \E r \in {restore_backup(files, name, verify_checksum)} :
           restored' = [status |-> r.status, name |-> name,
                        verify |-> verify_checksum, content |-> r.content]
    /\ UNCHANGED <<svars, xvars, dvars, files, now, unreadable, called>>

FileNames == {BackupFilename(t, ts) : t \in BackupTypes, ts \in 0..MaxTime}

NextLedger ==
    \/ Tick
    \/ \E data \in Payloads, t \in BackupTypes, ok \in BOOLEAN : CreateBackup(data, t, ok)
    \/ \E name \in FileNames, data \in Payloads : Tamper(name, data)
    \/ \E data \in Payloads : PlaceFile(data)
    \/ \E name \in FileNames \cup {ForeignName}, verify \in BOOLEAN :
          RestoreBackup(name, verify)

SpecLedger == InitLedger /\ [][NextLedger]_vars

--------------------------------------------------------------------------
(* The upkeep of the ledger: entries are written as the days go by, listed  *)
(* (plexiq backup list) and pruned (plexiq backup cleanup)                  *)

\* a day goes by
NextDay ==
    /\ now \div SecondsPerDay < MaxDays
    /\ now' = now + SecondsPerDay
    /\ restored' = NoRestore
    /\ called' = NoCall
    /\ UNCHANGED <<svars, xvars, dvars, files, unreadable>>

\* a stored file is cut short behind the program's back (a crash or a
\* full disk while it was written): json.load raises on it
Truncate(name) ==
    /\ name \in DOMAIN files \ unreadable
    /\ files' = [files EXCEPT ![name].mtime = now]
    /\ unreadable' = unreadable \cup {name}
    /\ restored' = NoRestore
    /\ called' = NoCall
    /\ UNCHANGED <<svars, xvars, dvars, now>>

\* --type and --limit of `plexiq backup list` (commands/backup.py:24-43)
ListTypes == {Absent, Val(<<"delete">>), Val(<<"delete", "dryrun">>)}
ListLimits == {Absent, Val(1)}

\* backup.py:129-171 list_backups
ListBackups(backup_type, limit) ==
    /\ \E backup_files \in SortedGlob(files, backup_type) :
          called' = [NoCall EXCEPT
                        !.op = "list", !.backup_type = backup_type, !.limit = limit,
                        !.entries = list_backups(files, unreadable, backup_files, limit)]
    /\ UNCHANGED <<svars, xvars, dvars, files, now, restored, unreadable>>

\* BACKUP_RETENTION_DAYS (config.py:55)
RetentionOptions == {0, 1, 7}

\* backup.py:173-201 cleanup_old_backups; failing holds the files whose
\* unlink raises
CleanupOldBackups(retention_days, failing) ==
    /\ \E r \in {cleanup_old_backups(files, unreadable, retention_days, now, failing)} :
          /\ files' = r.dir
          /\ unreadable' = unreadable \cap DOMAIN r.dir
          /\ called' = [NoCall EXCEPT
                           !.op = "cleanup", !.retention_days = retention_days,
                           !.before = files, !.bad = unreadable,
                           !.failing = failing,
                           !.deleted_count = r.deleted_count,
                           !.deleted_size = r.deleted_size,
                           \* backup.py:197-201
                           !.logged = r.deleted_count > 0]
    /\ restored' = NoRestore
    /\ UNCHANGED <<svars, xvars, dvars, now>>

UpkeepPayloads == {<<>>, << << <<"a", 1>>, <<"b", 2>> >> >>}

NextUpkeep ==
    \/ NextDay
    \/ \E data \in UpkeepPayloads, t \in BackupTypes, ok \in BOOLEAN : CreateBackup(data, t, ok)
    \/ \E name \in DOMAIN files : Truncate(name)
    \/ \E t \in ListTypes, limit \in ListLimits : ListBackups(t, limit)
    \/ \E r \in RetentionOptions, failing \in SUBSET DOMAIN files :
          CleanupOldBackups(r, failing)

SpecUpkeep == InitLedger /\ [][NextUpkeep]_vars

--------------------------------------------------------------------------
(* Properties of the scoring engine, checked under SpecScore *)

\* the values of the rating sources a record has, in tenths
RatingsPresent(it) ==
    {o.v : o \in {x \in {it.imdb, it.tmdb, it.rotten_tomatoes} : x.tag = "val"}}

\* the mean of the available imdb, tmdb and rotten_tomatoes/10 values is at
\* least threshold
NormalizedAverageAtLeast(it, threshold) ==
    LET present == (IF it.imdb.tag = "val" THEN <<it.imdb.v>> ELSE <<>>)
                   \o (IF it.tmdb.tag = "val" THEN <<it.tmdb.v>> ELSE <<>>)
                   \o (IF it.rotten_tomatoes.tag = "val"
                       THEN <<it.rotten_tomatoes.v>> ELSE <<>>)
    IN  present # <<>> /\ SumSeq(present) >= threshold * Len(present)

\* C1: a record whose normalized average rating is at least
\* never_delete_rating is analyzed with deletion_recommended False, whatever
\* its other fields and whichever rating sources are present.
C1_ProtectionInvariant ==
    (spc = "analyzed" /\ NormalizedAverageAtLeast(item, config.never_delete_rating))
        => ~result.recommended

\* C7: under every configuration _validate_config accepts, the score
\* compute_deletion_score returns lies in [0.0, 1.0].
C7_ScoreInRange ==
    spc \in {"scored", "analyzed"} => (0 <= result.score /\ result.score <= 60000)

\* C8: a record whose fields are missing (key absent or null) but not
\* malformed is analyzed without an error.
C8_MissingDataNoError ==
    (item.added_at.tag # "malformed" /\ item.last_viewed_at.tag # "malformed")
        => spc # "raised"

\* C14: whenever the safety gate compares a rating average with
\* never_delete_rating, that average is the one _score_ratings computes for
\* the record: both have ratings or neither has, and the two means agree.
C14_GateUsesScoringAverage ==
    (spc = "analyzed" /\ result.score >= config.min_deletion_score * 600)
        => LET gate == GateAvailableRatings(item)
               scoring == ScoreAvailableRatings(item)
           IN  /\ (gate = <<>>) <=> (scoring = <<>>)
               /\ SumSeq(gate) * Len(scoring) = SumSeq(scoring) * Len(gate)

\* the lines each component scorer can return
PlayCountLines ==
    {"Play count: never watched", "Play count: watched once",
     "Play count: occasional viewer", "Play count: frequently watched"}
RatingsLines ==
    {"Ratings: none available, neutral", "Ratings: PROTECTED (highly rated)",
     "Ratings: low priority", "Ratings: moderate priority", "Ratings: high priority"}
SizeLines == {"Size: small", "Size: medium", "Size: large", "Size: very large"}
AgeLines ==
    {"Age: unknown add date, neutral",
     "Age: never watched, very high priority", "Age: never watched, high priority",
     "Age: never watched, moderate priority",
     "Age: last watched, very high priority", "Age: last watched, moderate priority",
     "Age: last watched, low priority", "Age: last watched, very low priority"}
QualityLines == {"Quality: old codec", "Quality: codec", "Quality: unknown codec"}

\* C21: for every record, fields missing or not, compute_deletion_score
\* returns a rationale of six entries: the summary, then the lines of play
\* count, ratings, size, age and quality in this order.
C21_SixEntryRationale ==
    (spc # "start" /\ item.added_at.tag # "malformed"
                   /\ item.last_viewed_at.tag # "malformed")
        => /\ Len(result.rationale) = 6
           /\ result.rationale[1] = "Overall deletion score"
           /\ result.rationale[2] \in PlayCountLines
           /\ result.rationale[3] \in RatingsLines
           /\ result.rationale[4] \in SizeLines
           /\ result.rationale[5] \in AgeLines
           /\ result.rationale[6] \in QualityLines

\* view count 0, no ratings, at least 10 GiB, added more than 365 days ago
\* and never viewed
StaleUnrated(it) ==
    /\ it.view_count = 0
    /\ it.imdb.tag # "val" /\ it.tmdb.tag # "val" /\ it.rotten_tomatoes.tag # "val"
    /\ it.size_bytes.tag = "val" /\ it.size_bytes.v >= 10 * 1024
    /\ it.added_at.tag = "val" /\ it.added_at.v > 365
    /\ it.last_viewed_at.tag \in {"absent", "null"}

\* C22: under the default weights such a record gets a score of at least
\* 0.7 whatever its resolution and codec, with the never-watched play count
\* line and a size line in its rationale.
C22_StaleUnratedScoresHigh ==
    (spc # "start" /\ StaleUnrated(item) /\ config.weights = DefaultConfig.weights)
        => /\ Len(result.rationale) = 6
           /\ result.score >= 70 * 600
           /\ result.rationale[2] = "Play count: never watched"
           /\ result.rationale[4] \in SizeLines

--------------------------------------------------------------------------
(* Properties of the configuration, checked under SpecConfig *)

\* C16: every configuration a score is computed under passes the checks of
\* _validate_config: the weights sum to within [0.95, 1.05],
\* min_deletion_score is in [0, 1] and never_delete_rating in [0, 10].
C16_ScoredUnderValidConfig ==
    spc \in {"scored", "analyzed", "raised"} => _validate_config(config)

--------------------------------------------------------------------------
(* Properties of the delete workflow, checked under Spec *)

Executing == dpc \in {"EXECUTING", "COMPLETED"}

\* a ledger entry of the given type holds the current plan
PlanRecorded(backup_type) ==
    \E f \in DOMAIN files :
        /\ files[f].backup_type = backup_type
        /\ DataEq(files[f].data, PlanData(items_to_delete))
        /\ files[f].metadata.item_count = Len(items_to_delete)

\* C2: a run with the execute flag set and confirm not set never reaches
\* EXECUTING.
C2_ExecuteNeedsConfirm ==
    (~args.dry_run /\ ~args.confirm) => ~Executing

\* C3: the run enters EXECUTING, and deletes, only with the Backup Entry of
\* its plan already written; a run whose write failed has deleted nothing.
C3_BackupBeforeExecuting ==
    /\ (Executing \/ perform # NoPerform) => PlanRecorded(<<"delete", "executed">>)
    /\ (dpc = "FAILED" /\ files = <<>>) => perform = NoPerform

C3_Witness ==
    /\ dpc = "COMPLETED"
    /\ perform.deleted_count > 0
    /\ PlanRecorded(<<"delete", "executed">>)

\* C4: without the execute flag (the command-line defaults, or the GUI
\* delete button) the deletion capability is never invoked.
C4_DryRunNonDestructive ==
    (args.dry_run \/ gpc # "idle") => (~Executing /\ perform = NoPerform)

C4_Witness ==
    /\ dpc = "DRY_RUN_REPORTED"
    /\ args.dry_run
    /\ items_to_delete # <<>>

\* C5: an item with any single available rating at or above
\* never_delete_rating is in no deletion plan.
C5_AnyHighRatingExcluded ==
    \A i \in 1..Len(items_to_delete) :
        \A r \in RatingsPresent(items_to_delete[i].record) :
            r < config.never_delete_rating

\* C6: a delete invocation that returns without executing has persisted a
\* plan record in the ledger.
C6_PlanRecordPersisted ==
    (\/ dpc \in {"DRY_RUN_REPORTED", "CANCELLED", "NO_ITEMS"}
     \/ gpc \in {"dry_run_complete", "no_items"})
        => \E f \in DOMAIN files : DataEq(files[f].data, PlanData(items_to_delete))

\* the record scores without error once its dates are taken away
ScoresWithoutDates(it, cfg) ==
    AnalyzeOne([it EXCEPT !.added_at = Null, !.last_viewed_at = Null], cfg).err = "none"

HasMalformedDate(it) ==
    it.added_at.tag = "malformed" \/ it.last_viewed_at.tag = "malformed"

\* C9: a malformed date string costs a record the age component only (the
\* neutral default): the record and the rest of its batch are still scored.
C9_MalformedDateNeutral ==
    (/\ gpc \in {"analyzed", "analysis_error"}
     /\ \E i \in 1..Len(library) : HasMalformedDate(library[i])
     /\ \A i \in 1..Len(library) : ScoresWithoutDates(library[i], config))
        => /\ gpc = "analyzed"
           /\ Len(gui_items) = Len(library)
           /\ \A i \in 1..Len(gui_items) :
                 HasMalformedDate(gui_items[i].record)
                     => gui_items[i].deletion_rationale[5]
                            = "Age: unknown add date, neutral"

\* C13: when _perform_deletion ends, every item of the plan that has a
\* rating key was attempted whatever happened to the items before it,
\* deleted_count + failed_count is the size of the plan, and the items
\* counted as deleted are those whose delete call succeeded.
C13_BatchCounts ==
    dpc = "COMPLETED"
        => LET n == Len(items_to_delete)
               keyed == {i \in 1..n : items_to_delete[i].record.rating_key.tag = "val"}
           IN  /\ perform.deleted_count + perform.failed_count = n
               /\ perform.attempted = keyed
               /\ perform.deleted = {i \in keyed : perform.outcome[i] = "deleted"}
               /\ perform.deleted_count = Cardinality(perform.deleted)

\* a batch whose first item fails and whose second item is deleted
C13_Witness ==
    /\ dpc = "COMPLETED"
    /\ Len(items_to_delete) = 2
    /\ 1 \notin perform.deleted
    /\ 2 \in perform.deleted
    /\ perform.failed_count = 1

\* C15: every planned item has a score at or above the threshold used
\* (--min-score when given, else min_deletion_score) and is recommended; every
\* item analyze_items recommends has a score at or above min_deletion_score.
C15_ThresholdRespected ==
    /\ \A i \in 1..Len(items_to_delete) :
          /\ items_to_delete[i].deletion_score >= Threshold(args, config) * 600
          /\ items_to_delete[i].deletion_recommended
          /\ items_to_delete[i].deletion_score >= config.min_deletion_score * 600
    /\ \A i \in 1..Len(gui_items) :
          gui_items[i].deletion_recommended
              => gui_items[i].deletion_score >= config.min_deletion_score * 600

\* a plan made with --min-score above the configured threshold that leaves
\* out an item analyze_items recommends
C15_Witness ==
    /\ dpc = "PLANNED"
    /\ args.min_score.tag = "val"
    /\ args.min_score.v > config.min_deletion_score
    /\ Len(items_to_delete) = 1
    /\ \E i \in 1..Len(library) :
          /\ library[i] # items_to_delete[1].record
          /\ AnalyzeOne(library[i], config).item.deletion_recommended

\* C26: a run that has ended without a call of _perform_deletion (nothing
\* to delete, a dry run, a refusal at the prompt) leaves no record of type
\* delete_executed in the ledger.
C26_ExecutedRecordMeansAttempted ==
    dpc \in {"NO_ITEMS", "DRY_RUN_REPORTED", "CANCELLED"}
        => \A f \in DOMAIN files : files[f].backup_type # <<"delete", "executed">>

\* C27: the analysis of an empty library completes: the command that asked
\* for it goes on with the empty result and finds nothing to delete.
C27_EmptyLibraryCompletes ==
    (library = <<>> /\ args.auto_analyze /\ dpc \notin {"idle", "PLANNING"})
        => dpc = "NO_ITEMS"

--------------------------------------------------------------------------
(* One record scored twice by MediaAnalyzer.compute_deletion_score, with
   other calls and time between the two. The dates of a record are held as
   whole days before the clock reading of the initial state; elapsed is the
   number of days the clock has advanced since. *)

\* the dates of a record as _score_age sees them when the clock has
\* advanced by d days: datetime.now() - added_at, analyzer.py:219 and 232
AtTime(it, d) ==
    [it EXCEPT !.added_at = IF @.tag = "val" THEN Val(@.v + d) ELSE @,
               !.last_viewed_at = IF @.tag = "val" THEN Val(@.v + d) ELSE @]

IdemRecords ==
    LibraryRecords
    \cup { \* added 365 days ago, never watched
           [Stale EXCEPT !.rating_key = Val(9), !.added_at = Val(365)],
           \* last watched 180 days ago
           [Stale EXCEPT !.rating_key = Val(10), !.view_count = 1,
                         !.last_viewed_at = Val(180)] }

InitIdem ==
    /\ config \in RankConfigs
    /\ item \in IdemRecords
    /\ spc = "start"
    /\ result = NoResult
    /\ DeleteUnused
    /\ LedgerUnused
    /\ ExtraUnused

\* the first call of compute_deletion_score(item)
ScoreFirst ==
    /\ spc = "start"
    /\ \E r \in {compute_deletion_score(AtTime(item, elapsed), config)} :
           earlier' = [NoResult EXCEPT !.err = r.err, !.score = r.score,
                                       !.rationale = r.rationale]
    /\ spc' = "first"
    /\ UNCHANGED <<config, item, result, dvars, lvars, movies, analyzed_movies, elapsed,
                   report, analysis_state, cached_results, api>>

\* a call of compute_deletion_score on another record
ScoreOther ==
    /\ spc = "first"
    /\ \E other \in IdemRecords \ {item} :
          \E r \in {compute_deletion_score(AtTime(other, elapsed), config)} :
             result' = [NoResult EXCEPT !.err = r.err, !.score = r.score,
                                        !.rationale = r.rationale]
    /\ UNCHANGED <<config, item, spc, dvars, lvars, xvars>>

\* analyze_items([item]): the record gets the keys deletion_score,
\* deletion_rationale and deletion_recommended (analyzer.py:55-62); its
\* date strings stay as they were
AnnotateItem ==
    /\ spc = "first"
    /\ gui_items = <<>>
    /\ \E r \in {analyze_items(<<AtTime(item, elapsed)>>, config)} :
          /\ r.err = "none"
          /\ gui_items' = [i \in 1..Len(r.items) |-> [r.items[i] EXCEPT !.record = item]]
    /\ UNCHANGED <<svars, library, dpc, args, items_to_delete, perform, gpc, lvars, xvars>>

\* the clock advances by a day
DayPasses ==
    /\ spc = "first"
    /\ elapsed < MaxDays
    /\ elapsed' = elapsed + 1
    /\ UNCHANGED <<svars, dvars, lvars, movies, analyzed_movies, earlier, report,
                   analysis_state, cached_results, api>>

\* the second call, on the record as it is by then (annotated or not)
ScoreAgain ==
    /\ spc = "first"
    /\ \E it \in {IF gui_items # <<>> THEN gui_items[1].record ELSE item} :
          \E r \in {compute_deletion_score(AtTime(it, elapsed), config)} :
             result' = [NoResult EXCEPT !.err = r.err, !.score = r.score,
                                        !.rationale = r.rationale]
    /\ spc' = "second"
    /\ UNCHANGED <<config, item, dvars, lvars, xvars>>

NextIdem == ScoreFirst \/ ScoreOther \/ AnnotateItem \/ DayPasses \/ ScoreAgain

SpecIdem == InitIdem /\ [][NextIdem]_vars

--------------------------------------------------------------------------
(* Properties of repeated scoring, checked under SpecIdem *)

\* C19: the second call of compute_deletion_score on a record returns the
\* score and the rationale the first call returned, whatever happened
\* between the two calls.
C19_Idempotent ==
    spc = "second"
        => /\ result.err = earlier.err
           /\ result.score = earlier.score
           /\ result.rationale = earlier.rationale

--------------------------------------------------------------------------
(* Properties of the ranking, checked under SpecRank *)

\* C17: what analyze_items and analyze_movies return is the analyzed input
\* rearranged: sorted by score, highest first, items of equal score in the
\* order they had in the input.
C17_RankingStable ==
    /\ gpc = "analyzed"
          => \E p \in Permutations(1..Len(library)) :
                /\ Len(gui_items) = Len(library)
                /\ \A i \in 1..Len(library) :
                      gui_items[i] = AnalyzeOne(library[p[i]], config).item
                /\ \A i, j \in 1..Len(library) :
                      i < j => /\ gui_items[i].deletion_score >= gui_items[j].deletion_score
                               /\ gui_items[i].deletion_score = gui_items[j].deletion_score
                                      => p[i] < p[j]
    /\ analyzed_movies # <<>>
          => \E p \in Permutations(1..Len(movies)) :
                /\ Len(analyzed_movies) = Len(movies)
                /\ \A i \in 1..Len(movies) :
                      analyzed_movies[i] = analyze_movie(movies[p[i]])
                /\ \A i, j \in 1..Len(movies) :
                      i < j => /\ analyzed_movies[i].delete_score >= analyzed_movies[j].delete_score
                               /\ analyzed_movies[i].delete_score = analyzed_movies[j].delete_score
                                      => p[i] < p[j]

\* a ranking that moved an item and holds two different items of equal score
C17_Witness ==
    /\ gpc = "analyzed"
    /\ \E k \in 1..Len(library) : gui_items[k].record # library[k]
    /\ \E i, j \in 1..Len(gui_items) :
          /\ i < j
          /\ gui_items[i].deletion_score = gui_items[j].deletion_score
          /\ gui_items[i].record # gui_items[j].record

\* C18 as claimed: the five items come back in ascending order of view
\* count with strictly decreasing scores, no two equal.
C18_StrictByViewCount ==
    (gpc = "analyzed" /\ library \in ViewBatches)
        => /\ \A i \in 1..5 : gui_items[i].record.view_count = i - 1
           /\ \A i, j \in 1..5 :
                 i < j => gui_items[i].deletion_score > gui_items[j].deletion_score

\* C18 amended: under a positive play_count weight the ranking returned for
\* the batch follows the play-count policy class by class: 0 views, 1 view,
\* the items with 2 and 3 views (equal scores, in input order), 4 views.
C18_PolicyOrder ==
    (gpc = "analyzed" /\ library \in ViewBatches /\ config.weights.play_count > 0)
        => LET at(v) == CHOOSE i \in 1..5 : library[i].view_count = v
               views == [i \in 1..5 |-> gui_items[i].record.view_count]
               score == [i \in 1..5 |-> gui_items[i].deletion_score]
           IN  /\ views = IF at(2) < at(3) THEN <<0, 1, 2, 3, 4>>
                           ELSE <<0, 1, 3, 2, 4>>
               /\ score[1] > score[2]
               /\ score[2] > score[3]
               /\ score[3] = score[4]
               /\ score[4] > score[5]

\* a batch given with the 3-view item before the 2-view item
C18_Witness ==
    /\ gpc = "analyzed"
    /\ library \in ViewBatches
    /\ config.weights.play_count > 0
    /\ library[1].view_count = 3
    /\ gui_items[3].record.view_count = 3

\* size_bytes as _score_size reads it: 0 for a missing key
SizeOf(it) == IF it.size_bytes.tag = "val" THEN it.size_bytes.v ELSE 0

FileSizeOf(movie) == IF movie.file_size_gb.tag = "val" THEN movie.file_size_gb.v ELSE 0

\* C20: of two items alike except for their sizes, the larger one has no
\* smaller size score and, the size weight not being negative, no smaller
\* total score; likewise for the backend's file size score.
C20_SizeMonotone ==
    /\ (gpc = "analyzed" /\ library \in SizePairs)
          => \A i, j \in 1..2 :
                SizeOf(gui_items[i].record) >= SizeOf(gui_items[j].record)
                    => /\ _score_size(gui_items[i].record).score
                              >= _score_size(gui_items[j].record).score
                       /\ config.weights.size >= 0
                              => gui_items[i].deletion_score >= gui_items[j].deletion_score
    /\ (analyzed_movies # <<>> /\ movies \in MovieSizePairs)
          => \A i, j \in 1..2 :
                FileSizeOf(analyzed_movies[i].movie) >= FileSizeOf(analyzed_movies[j].movie)
                    => /\ analyzed_movies[i].component_scores.file_size
                              >= analyzed_movies[j].component_scores.file_size
                       /\ calculate_file_size_score(analyzed_movies[i].movie)
                              >= calculate_file_size_score(analyzed_movies[j].movie)
                       /\ analyzed_movies[i].delete_score >= analyzed_movies[j].delete_score

\* the larger of two items, given second, ranked first with a higher score
C20_Witness ==
    /\ gpc = "analyzed"
    /\ library \in SizePairs
    /\ SizeOf(library[2]) > SizeOf(library[1])
    /\ gui_items[1].record = library[2]
    /\ gui_items[1].deletion_score > gui_items[2].deletion_score

--------------------------------------------------------------------------
(* Properties of the ledger, checked under SpecLedger *)

C11_NeverUnverified ==
    (restored.status = "ok" /\ restored.verify)
        => /\ restored.content.checksum.tag = "val"
           /\ restored.content.checksum.v
                  = sha256(dumps(restored.content.data, TRUE))

\* C12: an entry once written stays in the directory with the payload and
\* the creation time it was written with, whatever create_backup calls
\* follow.
C12_EntriesImmutable ==
    [][\A f \in DOMAIN files :
          /\ f \in DOMAIN files'
          /\ files'[f].created_at = files[f].created_at
          /\ DataEq(files'[f].written, files[f].written)]_vars

--------------------------------------------------------------------------
(* Properties of the upkeep of the ledger, checked under SpecUpkeep *)

\* the cutoff of the cleanup call recorded in called
Cutoff == now - called.retention_days * SecondsPerDay

RECURSIVE SizeOfAll(_, _, _)
SizeOfAll(dir, bad, names) ==
    IF names = {} THEN 0
    ELSE LET f == CHOOSE g \in names : TRUE
         IN  st_size(dir, bad, f) + SizeOfAll(dir, bad, names \ {f})

\* the entries a cleanup call has removed
Removed == DOMAIN called.before \ DOMAIN files

\* C23 as claimed: a cleanup call deletes every entry older than the
\* cutoff, leaves every other entry as it was, and counts what it deleted.
C23_PrunesAllOld ==
    called.op = "cleanup"
        => /\ \A f \in DOMAIN called.before :
                 IF called.before[f].mtime < Cutoff
                 THEN f \notin DOMAIN files
                 ELSE f \in DOMAIN files /\ files[f] = called.before[f]
           /\ called.deleted_count = Cardinality(Removed)
           /\ called.deleted_size = SizeOfAll(called.before, called.bad, Removed)

\* C23 amended: a cleanup call deletes every entry older than the cutoff
\* whose unlink succeeds; an old entry whose unlink fails and every entry
\* not older than the cutoff stay as they were; the count and the size
\* are those of the entries deleted, and are logged if any was.
C23_PrunesOldUnlessUnlinkFails ==
    called.op = "cleanup"
        => /\ \A f \in DOMAIN called.before :
                 IF called.before[f].mtime < Cutoff /\ f \notin called.failing
                 THEN f \notin DOMAIN files
                 ELSE f \in DOMAIN files /\ files[f] = called.before[f]
           /\ DOMAIN files \subseteq DOMAIN called.before
           /\ called.deleted_count = Cardinality(Removed)
           /\ called.deleted_size = SizeOfAll(called.before, called.bad, Removed)
           /\ called.logged <=> Removed # {}

\* a cleanup that deleted one old entry and kept another, whose unlink
\* failed
C23_Witness ==
    /\ called.op = "cleanup"
    /\ called.deleted_count = 1
    /\ called.deleted_size > 0
    /\ \E f \in called.failing \cap DOMAIN files : files[f].mtime < Cutoff

\* the readable files the pattern of the list call recorded in called matches
Listable ==
    {f \in DOMAIN files \ unreadable : GlobMatches(called.backup_type, f)}

\* C24: list_backups returns entries newest first; with a limit n >= 1 it
\* returns the n most recent readable entries, or all when there are fewer.
C24_NewestFirstWithLimit ==
    called.op = "list"
        => LET e == called.entries
               listed == {e[i].filename : i \in 1..Len(e)}
           IN  /\ \A i, j \in 1..Len(e) :
                     i < j => files[e[i].filename].mtime >= files[e[j].filename].mtime
               /\ listed \subseteq Listable
               /\ called.limit.tag # "val" => listed = Listable
               /\ (called.limit.tag = "val" /\ called.limit.v >= 1)
                     => /\ Len(e) = Min(called.limit.v, Cardinality(Listable))
                        /\ \A f \in listed, g \in Listable \ listed :
                              files[f].mtime >= files[g].mtime

\* C30: list_backups(backup_type=T) returns entries of type T only, and,
\* no limit given, every readable entry of type T.
C30_ExactTypeFilter ==
    (called.op = "list" /\ called.backup_type.tag = "val")
        => LET e == called.entries
           IN  /\ \A i \in 1..Len(e) : e[i].backup_type = called.backup_type.v
               /\ called.limit.tag # "val"
                     => {e[i].filename : i \in 1..Len(e)}
                        = {f \in DOMAIN files \ unreadable :
                              files[f].backup_type = called.backup_type.v}


--------------------------------------------------------------------------
(* Properties of the backend's report, checked under SpecReport *)

\* the size of the entries from..to of the ranking, in tenths of a GB
RECURSIVE SizeOfRange(_, _, _)
SizeOfRange(ms, from, to) ==
    IF from > to THEN 0
    ELSE IF from = to THEN FileSizeOf(ms[from].movie)
    ELSE CHOOSE r \in {left + right :
                          left \in {SizeOfRange(ms, from, (from + to) \div 2)},
                          right \in {SizeOfRange(ms, (from + to) \div 2 + 1, to)}} :
             TRUE

SizeOfFirst(ms, n) == SizeOfRange(ms, 1, n)

\* C25: the report over a ranked batch gives the number of entries, their
\* total size, the number never played, the number scoring above 70, and the
\* size of the first 50, 100 and 200 entries (of all of them when the batch
\* is shorter); these three sizes never decrease and never exceed the total
C25_ReportTotals ==
    report.generated =>
        LET n == Len(analyzed_movies)
            first(k) == SizeOfFirst(analyzed_movies, Min(k, n))
        IN  /\ report.total_movies = n
            /\ report.total_size_gb = SizeOfFirst(analyzed_movies, n)
            /\ report.never_watched =
                   Cardinality({i \in 1..n : analyzed_movies[i].movie.view_count = 0})
            /\ report.low_rated =
                   Cardinality({i \in 1..n : analyzed_movies[i].delete_score > 700})
            /\ report.space_recovery.top_50 = first(50)
            /\ report.space_recovery.top_100 = first(100)
            /\ report.space_recovery.top_200 = first(200)
            /\ report.space_recovery.top_50 <= report.space_recovery.top_100
            /\ report.space_recovery.top_100 <= report.space_recovery.top_200
            /\ report.space_recovery.top_200 <= report.total_size_gb

\* a report over more than 200 entries, every cut strictly inside the next
C25_Witness ==
    /\ report.generated
    /\ report.total_movies > 200
    /\ report.never_watched > 0
    /\ report.low_rated > 0
    /\ report.space_recovery.top_50 < report.space_recovery.top_100
    /\ report.space_recovery.top_100 < report.space_recovery.top_200
    /\ report.space_recovery.top_200 < report.total_size_gb

--------------------------------------------------------------------------
(* Properties of the HTTP API, checked under SpecApi *)

\* C28: at most one run of run_full_analysis is in progress at any time,
\* whatever the interleaving of concurrent POST /api/analyze requests
C28_SingleRun ==
    Cardinality({r \in Requests :
                    api[r].pc \in {"collecting", "enriching", "analyzing"}}) <= 1

\* C29: whenever analysis_state.status is 'complete', the error field is None
C29_CompleteHasNoError ==
    analysis_state.status = "complete" => analysis_state.error = Null

====
